---- MODULE Spec2Model ----
(***************************************************************************)
(* Model of main.js: a WebGPU particle simulation.  The host (JavaScript)  *)
(* keeps a shadow copy of the frame parameters (uniformData), a frame      *)
(* callback render() that uploads them and submits one compute dispatch    *)
(* and one draw to the device queue, and pointer/touch/resize listeners.   *)
(* The device executes the queue in order; a compute dispatch is a set of  *)
(* cs_main invocations that run in any order.                              *)
(*                                                                         *)
(* f32 values are modelled in fixed point with quantum 1/S, plus the one   *)
(* non-finite value NaN.  Times are in milliseconds.                       *)
(***************************************************************************)
EXTENDS Integers, Sequences, FiniteSets, TLC

VARIABLES particles, uniformData, uniformBuffer, lastTime, now, frame,
          rafPending, queue, done, pre, updates, presented, buttonsDown,
          touches, inner, canvas, events, uploaded, indeterminate

vars == <<particles, uniformData, uniformBuffer, lastTime, now, frame,
          rafPending, queue, done, pre, updates, presented, buttonsDown,
          touches, inner, canvas, events, uploaded, indeterminate>>

(* ------------------------------ bounds --------------------------------- *)
numParticles == 2
workgroup_size == 2
MaxFrames == 2
MaxTouches == 2
MaxEvents == 1

(* ------------------------- f32 as fixed point -------------------------- *)
S == 1000
NaN == 0 - (S * S * S)

Min(a, b) == IF a < b THEN a ELSE b
Max(a, b) == IF a > b THEN a ELSE b

\* integer quotient rounding toward zero
Quot(a, b) == IF a >= 0 THEN a \div b ELSE 0 - ((0 - a) \div b)

IsNaN(a) == a = NaN
Add(a, b) == IF IsNaN(a) \/ IsNaN(b) THEN NaN ELSE a + b
Sub(a, b) == IF IsNaN(a) \/ IsNaN(b) THEN NaN ELSE a - b
Neg(a) == IF IsNaN(a) THEN NaN ELSE 0 - a
Mul(a, b) == IF IsNaN(a) \/ IsNaN(b) THEN NaN ELSE Quot(a * b, S)
\* a / b; a zero divisor gives the device's indeterminate value ind
Div(a, b, ind) == IF IsNaN(a) \/ IsNaN(b) THEN NaN
                  ELSE IF b = 0 THEN ind
                  ELSE Quot(a * S, b)
\* comparisons with NaN are false
Lt(a, b) == ~IsNaN(a) /\ ~IsNaN(b) /\ a < b
Gt(a, b) == ~IsNaN(a) /\ ~IsNaN(b) /\ a > b

\* F applied to the value of e, which is computed once
Let(e, F(_)) == CHOOSE r \in { F(x) : x \in {e} } : TRUE

ISqrt(n) == CHOOSE r \in 0..(2 * S) : r * r <= n /\ n < (r + 1) * (r + 1)

clamp(x, lo, hi) == IF IsNaN(x) THEN NaN ELSE Min(Max(x, lo), hi)

\* u32(f): conversion of a non-negative f32 to an unsigned integer
u32(f) == f \div S

(* ------------------------------ cs_main -------------------------------- *)
\* sin of an angle given in 1/S radians (Bhaskara's rational approximation
\* on the argument reduced to [0, 2*pi))
Pi == (3142 * S) \div 1000
sinPos(a) == (16 * a * (Pi - a)) \div ((5 * Pi * Pi - 4 * a * (Pi - a)) \div S)
sin(d) == Let(d % (2 * Pi),
              LAMBDA m : IF m <= Pi THEN sinPos(m) ELSE 0 - sinPos(m - Pi))

\* fract(sin(dot(st, (12.9898, 78.233))) * 43758.5453123), in [0, 1)
random(st) ==
    IF IsNaN(st[1]) \/ IsNaN(st[2]) THEN NaN
    ELSE Let(Quot(st[1] * 12990 + st[2] * 78233, 1000),
             LAMBDA d : (sin(d) * 43758) % S)

\* squared distance threshold 0.04, on the scale of a product of two f32
Radius2 == (4 * S * S) \div 100

\* dot(dir, dir) on the scale S * S (no underflow, as in f32)
dot2(dir) == IF IsNaN(dir[1]) \/ IsNaN(dir[2]) THEN NaN
             ELSE dir[1] * dir[1] + dir[2] * dir[2]
sqrtDist(dist) == Let(dist, LAMBDA d : IF IsNaN(d) THEN NaN ELSE ISqrt(d))

normalize(dir, ind) ==
    Let(sqrtDist(dot2(dir)),
        LAMBDA len : <<Div(dir[1], len, ind), Div(dir[2], len, ind)>>)

\* vec2(-dir.y, dir.x) * 0.2 / sqrt(dist)
tangential(dir, ind) ==
    LET t1 == IF IsNaN(dir[2]) THEN NaN ELSE Quot((0 - dir[2]) * 2, 10)
        t2 == IF IsNaN(dir[1]) THEN NaN ELSE Quot(dir[1] * 2, 10)
    IN  Let(sqrtDist(dot2(dir)),
            LAMBDA len : <<Div(t1, len, ind), Div(t2, len, ind)>>)

\* the pointer force divides by length(dir) = 0 (lines 76-82)
dividesByZero(p, u) ==
    Let(dot2(<<Sub(u[3], p.pos[1]), Sub(u[4], p.pos[2])>>), LAMBDA dist :
        Lt(dist, Radius2) /\ u32(u[2]) \in {1, 2} /\ sqrtDist(dist) = 0)

\* the pointer force applied at any distance
forcedAnywhere(pos, vel, u, ind) ==
    Let(<<Sub(u[3], pos[1]), Sub(u[4], pos[2])>>, LAMBDA dir :
        IF u32(u[2]) = 1
        THEN Let(<<normalize(dir, ind), tangential(dir, ind)>>, LAMBDA f :
                <<Add(Add(vel[1], Mul(f[1][1], u[1])), Mul(f[2][1], u[1])),
                  Add(Add(vel[2], Mul(f[1][2], u[1])), Mul(f[2][2], u[1]))>>)
        ELSE IF u32(u[2]) = 2
        THEN Let(normalize(dir, ind), LAMBDA n :
                <<Sub(vel[1], Mul(n[1], u[1])), Sub(vel[2], Mul(n[2], u[1]))>>)
        ELSE vel)

\* the pointer force of lines 76-84 applied to velocity vel
forced(pos, vel, u, ind) ==
    Let(<<Sub(u[3], pos[1]), Sub(u[4], pos[2])>>, LAMBDA dir :
        IF Lt(dot2(dir), Radius2)
        THEN IF u32(u[2]) = 1
             THEN Let(<<normalize(dir, ind), tangential(dir, ind)>>, LAMBDA f :
                     <<Add(Add(vel[1], Mul(f[1][1], u[1])), Mul(f[2][1], u[1])),
                       Add(Add(vel[2], Mul(f[1][2], u[1])), Mul(f[2][2], u[1]))>>)
             ELSE IF u32(u[2]) = 2
             THEN Let(normalize(dir, ind), LAMBDA n :
                     <<Sub(vel[1], Mul(n[1], u[1])), Sub(vel[2], Mul(n[2], u[1]))>>)
             ELSE vel
        ELSE vel)

\* noise, damping (lines 86-89) applied to the forced velocity
damped(pos, vel, u) ==
    Let(<<random(pos), random(vel)>>, LAMBDA r :
        Let(<<IF IsNaN(r[1]) THEN NaN ELSE Mul(Quot(2 * r[1] - S, 10), u[1]),
              IF IsNaN(r[2]) THEN NaN ELSE Mul(Quot(2 * r[2] - S, 10), u[1])>>,
            LAMBDA a :
        Let(<<Add(vel[1], a[1]), Add(vel[2], a[2])>>, LAMBDA w :
            <<IF IsNaN(w[1]) THEN NaN ELSE Quot(w[1] * 99, 100),
              IF IsNaN(w[2]) THEN NaN ELSE Quot(w[2] * 99, 100)>>)))

\* p.pos += p.vel * dt  (line 90), one axis
integrate(x, v, dt) == Add(x, Mul(v, dt))

\* a reflection that clamps but keeps the velocity
reflectKeepVelocity(x, v) == IF Lt(x, 0) \/ Gt(x, S)
                             THEN <<clamp(x, 0, S), v>>
                             ELSE <<x, v>>

\* boundary reflection of one axis (lines 92-100): <<coordinate, velocity>>
reflect(x, v) == IF Lt(x, 0) \/ Gt(x, S)
                 THEN <<clamp(x, 0, S), Neg(v)>>
                 ELSE <<x, v>>

\* integration and reflection of both axes (lines 90-100)
moved(pos, v, dt) ==
    Let(<<integrate(pos[1], v[1], dt), integrate(pos[2], v[2], dt)>>, LAMBDA x :
        Let(<<reflect(x[1], v[1]), reflect(x[2], v[2])>>, LAMBDA a :
            [pos |-> <<a[1][1], a[2][1]>>, vel |-> <<a[1][2], a[2][2]>>]))

\* one invocation of the update kernel on particle p with uniforms u, on a
\* device whose division by zero gives ind
cs_main(p, u, ind) ==
    Let(forced(p.pos, p.vel, u, ind), LAMBDA f :
        Let(damped(p.pos, f, u), LAMBDA v : moved(p.pos, v, u[1])))

(* ------------------------------ vs_main -------------------------------- *)
teal == <<149, 1000, 875>>
ember == <<1000, 173, 63>>

\* mix(a, b, t) = a * (1 - t) + b * t
mix(a, b, t) == Add(Mul(a, Sub(S, t)), Mul(b, t))

vs_main(p) ==
    LET t == Add(p.vel[1], IF IsNaN(p.vel[2]) THEN NaN ELSE p.vel[2] * 2)
        cx == IF IsNaN(p.pos[1]) THEN NaN ELSE p.pos[1] * 2 - S
        cy == IF IsNaN(p.pos[2]) THEN NaN ELSE p.pos[2] * 2 - S
    IN  [Position |-> <<cx, cy, 0, S>>,
         color |-> <<mix(teal[1], ember[1], t), mix(teal[2], ember[2], t),
                     mix(teal[3], ember[3], t), S>>]

(* --------------------------- initial state ----------------------------- *)
\* What a division by zero gives is not defined by the shading language: a
\* device gives NaN or 0, the same every time.  The outcome is Unknown until
\* the first such division.
Unknown == 1
Outcomes == {NaN, 0}
outcomes(ind) == IF ind = Unknown THEN Outcomes ELSE {ind}

\* values Math.random() can produce: pos in [0,1), vel in [-0.05, 0.05)
InitParticles ==
    << [pos |-> <<0, 0>>, vel |-> <<0, 0>>],
       [pos |-> <<100, 100>>, vel |-> <<0, 0>>],
       [pos |-> <<999, 0>>, vel |-> <<49, 0 - 50>>] >>

\* the particle collection drawn by one run of the generator: all particles
\* alike (seed 0), or the sample values in rotation (other seeds)
Seeds == 0..1
particleData(seed) ==
    [i \in 0..(numParticles - 1) |->
        IF seed = 0 THEN InitParticles[1]
        ELSE InitParticles[((i + seed) % 3) + 1]]

Viewports == {2, 4}
Buttons == {0, 2}
Gaps == {0, 20, 500}

Index == 0..(numParticles - 1)
\* Math.ceil(numParticles / 64) workgroups of workgroup_size invocations
Invocations ==
    0..(((numParticles + workgroup_size - 1) \div workgroup_size) * workgroup_size - 1)

NoFrame == [frame |-> 0, updates |-> 0, src |-> <<>>, out |-> <<>>]

Init ==
    /\ \E seed \in Seeds : particles = particleData(seed)
    /\ pre = particles
    /\ uniformData = <<0, 0, 0, 0>>
    /\ uniformBuffer = <<0, 0, 0, 0>>
    /\ lastTime = 0
    /\ now = 0
    /\ frame = 0
    /\ rafPending = 1
    /\ queue = <<>>
    /\ done = {}
    /\ updates = 0
    /\ presented = NoFrame
    /\ buttonsDown = {}
    /\ touches = 0
    /\ inner = 2
    /\ canvas = inner
    /\ events = 0
    /\ uploaded = <<>>
    /\ indeterminate = Unknown

(* ------------------------------ render --------------------------------- *)
\* the delta without the 30 ms ceiling
frameDeltaUnclamped(t, last) == Quot((t - last) * S, 1000)

\* Math.min(now - lastTime, 30) * 0.001, as f32 seconds
frameDelta(t, last) == Quot(Min(t - last, 30) * S, 1000)

\* the render pass recorded ahead of the compute pass
commandsDrawFirst(k, data) ==
    << [op |-> "write", frame |-> k, data |-> data],
       [op |-> "draw", frame |-> k, data |-> <<>>],
       [op |-> "compute", frame |-> k, data |-> <<>>] >>

\* writeBuffer, then one command buffer holding the compute pass followed
\* by the render pass, all on device.queue
commands(k, data) ==
    << [op |-> "write", frame |-> k, data |-> data],
       [op |-> "compute", frame |-> k, data |-> <<>>],
       [op |-> "draw", frame |-> k, data |-> <<>>] >>

\* a callback that does not schedule its successor
rescheduleNever(pending) == pending - 1

\* requestAnimationFrame(render) from inside the running callback
reschedule(pending) == (pending - 1) + 1

render(gap) ==
    /\ rafPending >= 1
    /\ frame < MaxFrames
    /\ frame = 0 => gap > 0
    /\ LET t == now + gap
           ud == [uniformData EXCEPT ![1] = frameDelta(t, lastTime)]
       IN  /\ now' = t
           /\ uniformData' = ud
           /\ lastTime' = t
           /\ queue' = queue \o commands(frame + 1, ud)
           /\ uploaded' = Append(uploaded, ud)
    /\ rafPending' = reschedule(rafPending)
    /\ frame' = frame + 1
    /\ UNCHANGED <<particles, uniformBuffer, done, pre, updates, presented,
                   buttonsDown, touches, inner, canvas, events, indeterminate>>

(* --------------------------- device queue ------------------------------ *)
GpuWrite ==
    /\ queue # <<>>
    /\ Head(queue).op = "write"
    /\ uniformBuffer' = Head(queue).data
    /\ queue' = Tail(queue)
    /\ UNCHANGED <<particles, uniformData, lastTime, now, frame, rafPending,
                   done, pre, updates, presented, buttonsDown, touches, inner,
                   canvas, events, uploaded, indeterminate>>

\* invocations of the current dispatch that have already run
running == IF done = Invocations THEN {} ELSE done

\* an invocation that integrates with its neighbour's velocity
invokeNeighbour(i, ps, u, ind) ==
    IF i >= numParticles THEN ps
    ELSE [ps EXCEPT ![i] =
            cs_main([pos |-> ps[i].pos,
                     vel |-> ps[(i + 1) % numParticles].vel], u, ind)]

\* the storage buffer after invocation i of cs_main
invoke(i, ps, u, ind) ==
    IF i >= numParticles THEN ps
    ELSE [ps EXCEPT ![i] = cs_main(ps[i], u, ind)]

GpuCompute(i) ==
    /\ queue # <<>>
    /\ Head(queue).op = "compute"
    /\ i \in Invocations \ running
    /\ pre' = IF running = {} THEN particles ELSE pre
    /\ \E ind \in IF i < numParticles /\ dividesByZero(particles[i], uniformBuffer)
                   THEN outcomes(indeterminate) ELSE {indeterminate} :
          /\ particles' = invoke(i, particles, uniformBuffer, ind)
          /\ indeterminate' = ind
    /\ done' = running \cup {i}
    /\ IF done' = Invocations
       THEN queue' = Tail(queue) /\ updates' = updates + 1
       ELSE UNCHANGED <<queue, updates>>
    /\ UNCHANGED <<uniformData, uniformBuffer, lastTime, now, frame,
                   rafPending, presented, buttonsDown, touches, inner, canvas,
                   events, uploaded>>

\* the draw call: one point per particle
drawn(ps) == [i \in Index |-> vs_main(ps[i])]

\* a draw that stores the clip-space position back into the particles
GpuDrawWriting ==
    /\ queue # <<>>
    /\ Head(queue).op = "draw"
    /\ presented' = [frame |-> Head(queue).frame, updates |-> updates,
                     src |-> particles, out |-> drawn(particles)]
    /\ particles' = [i \in Index |->
                       [particles[i] EXCEPT !.pos =
                          <<presented'.out[i].Position[1],
                            presented'.out[i].Position[2]>>]]
    /\ queue' = Tail(queue)
    /\ UNCHANGED <<uniformData, uniformBuffer, lastTime, now,
                   frame, rafPending, done, pre, updates, buttonsDown,
                   touches, inner, canvas, events, uploaded, indeterminate>>

GpuDraw ==
    /\ queue # <<>>
    /\ Head(queue).op = "draw"
    /\ presented' = [frame |-> Head(queue).frame, updates |-> updates,
                     src |-> particles, out |-> drawn(particles)]
    /\ queue' = Tail(queue)
    /\ UNCHANGED <<particles, uniformData, uniformBuffer, lastTime, now,
                   frame, rafPending, done, pre, updates, buttonsDown,
                   touches, inner, canvas, events, uploaded, indeterminate>>

(* --------------------------- event listeners --------------------------- *)
\* what no listener assigns
deviceAndLoop == <<particles, uniformBuffer, lastTime, now, frame, rafPending,
                   queue, done, pre, updates, presented, uploaded, indeterminate>>

\* the delivery of one input event to its listener
delivered(listener) ==
    /\ events < MaxEvents
    /\ events' = events + 1
    /\ listener

\* event.clientX / innerWidth and 1 - event.clientY / innerHeight
pointerX(cx) == Quot(cx * S, inner)
pointerY(cy) == S - Quot(cy * S, inner)

\* positions the pointer is sampled at: the diagonal of the viewport
ClientPoints == {1}

mousemove(c) ==
    /\ uniformData' = [uniformData EXCEPT ![3] = pointerX(c), ![4] = pointerY(c)]
    /\ UNCHANGED <<deviceAndLoop, buttonsDown, touches, inner, canvas>>

\* event.button === 0 ? 1 : 2
buttonMode(b) == IF b = 0 THEN 1 * S ELSE 2 * S

\* a listener that also writes the device copy
mousedownUploading(b) ==
    /\ b \notin buttonsDown
    /\ buttonsDown' = buttonsDown \cup {b}
    /\ uniformData' = [uniformData EXCEPT ![2] = buttonMode(b)]
    /\ uniformBuffer' = uniformData'
    /\ UNCHANGED <<particles, lastTime, now, frame, rafPending, queue, done,
                   pre, updates, presented, uploaded, indeterminate, touches,
                   inner, canvas>>

mousedown(b) ==
    /\ b \notin buttonsDown
    /\ buttonsDown' = buttonsDown \cup {b}
    /\ uniformData' = [uniformData EXCEPT ![2] = buttonMode(b)]
    /\ UNCHANGED <<deviceAndLoop, touches, inner, canvas>>

\* the listener runs on every release over the canvas, also of a button that
\* was pressed elsewhere or before the listeners were attached
mouseup(b) ==
    /\ buttonsDown' = buttonsDown \ {b}
    /\ uniformData' = [uniformData EXCEPT ![2] = 0]
    /\ UNCHANGED <<deviceAndLoop, touches, inner, canvas>>

touchmove(c) ==
    /\ uniformData' = [uniformData EXCEPT ![3] = pointerX(c), ![4] = pointerY(c)]
    /\ UNCHANGED <<deviceAndLoop, buttonsDown, touches, inner, canvas>>

\* event.touches.length === 2 ? 2 : 1
touchMode(n) == IF n = 2 THEN 2 * S ELSE 1 * S

touchstart ==
    /\ touches < MaxTouches
    /\ touches' = touches + 1
    /\ uniformData' = [uniformData EXCEPT ![2] = touchMode(touches')]
    /\ UNCHANGED <<deviceAndLoop, buttonsDown, inner, canvas>>

\* a touch that ends may have begun before the listeners were attached
touchend ==
    /\ touches' = Max(touches - 1, 0)
    /\ uniformData' = [uniformData EXCEPT ![2] = 0]
    /\ UNCHANGED <<deviceAndLoop, buttonsDown, inner, canvas>>

resize(w) ==
    /\ w # inner
    /\ inner' = w
    /\ canvas' = w
    /\ UNCHANGED <<deviceAndLoop, uniformData, buttonsDown, touches>>

(* --------------------------- specification ----------------------------- *)
Frame == \E gap \in Gaps : render(gap)
Compute == \E i \in Invocations : GpuCompute(i)
MouseMove == \E c \in ClientPoints : delivered(mousemove(c))
MouseDown == \E b \in Buttons : delivered(mousedown(b))
MouseUp == \E b \in Buttons : delivered(mouseup(b))
TouchMove == \E c \in ClientPoints : delivered(touchmove(c))
TouchStart == delivered(touchstart)
TouchEnd == delivered(touchend)
Resize == \E w \in Viewports : delivered(resize(w))

Next ==
    \/ Frame
    \/ GpuWrite
    \/ Compute
    \/ GpuDraw
    \/ MouseMove
    \/ MouseDown
    \/ MouseUp
    \/ TouchMove
    \/ TouchStart
    \/ TouchEnd
    \/ Resize

Spec == Init /\ [][Next]_vars

\* the listeners alone, under any sequence of input events
InputNext ==
    /\ \/ \E c \in ClientPoints : mousemove(c)
       \/ \E b \in Buttons : mousedown(b)
       \/ \E b \in Buttons : mouseup(b)
       \/ \E c \in ClientPoints : touchmove(c)
       \/ touchstart
       \/ touchend
       \/ \E w \in Viewports : resize(w)
    /\ UNCHANGED events

InputSpec == Init /\ [][InputNext]_vars

\* the frame loop under a display that keeps delivering refresh callbacks and
\* a device that keeps executing its queue
\* The loop's control never reads a particle value, so one particle
\* collection and one device stand for all of them here.
LiveInit == Init /\ particles = particleData(1)

\* a display refreshing at a steady rate
SteadyGaps == {20}
SteadyFrame == \E gap \in SteadyGaps : render(gap)

LiveNext ==
    \/ SteadyFrame
    \/ GpuWrite
    \/ Compute
    \/ GpuDraw
    \/ MouseMove
    \/ MouseDown
    \/ MouseUp
    \/ TouchMove
    \/ TouchStart
    \/ TouchEnd
    \/ Resize

Progress == SteadyFrame \/ GpuWrite \/ Compute \/ GpuDraw

LiveSpec == LiveInit /\ [][LiveNext]_vars /\ WF_vars(Progress)

(* ----------------- the update kernel on chosen inputs ------------------ *)
KernelParticles ==
    { [pos |-> <<999, 500>>, vel |-> <<500, 0>>],
      [pos |-> <<500, 500>>, vel |-> <<0, 0>>],
      [pos |-> <<450, 500>>, vel |-> <<20, 0 - 30>>],
      [pos |-> <<2, 998>>, vel |-> <<0 - 500, 500>>],
      [pos |-> <<0, 300>>, vel |-> <<0, 0 - 40>>] }

KernelPointers == { <<0, 0>>, <<500, 500>>, <<250, 750>>, <<0, 1000>> }
KernelDeltas == {0, 20, 30}
KernelModes == {0, 1 * S, 2 * S}

KernelInit ==
    /\ particles \in [Index -> KernelParticles]
    /\ pre = particles
    /\ \E dt \in KernelDeltas, m \in KernelModes, mp \in KernelPointers :
          /\ uniformBuffer = <<dt, m, mp[1], mp[2]>>
          /\ uniformData = uniformBuffer
          /\ uploaded = <<uniformBuffer>>
    /\ lastTime = 0
    /\ now = 0
    /\ frame = 1
    /\ rafPending = 1
    /\ queue = <<[op |-> "compute", frame |-> 1, data |-> <<>>]>>
    /\ done = {}
    /\ updates = 0
    /\ presented = NoFrame
    /\ buttonsDown = {}
    /\ touches = 0
    /\ inner = 2
    /\ canvas = inner
    /\ events = 0
    /\ indeterminate = Unknown

KernelNext == \E i \in Invocations : GpuCompute(i)

KernelSpec == KernelInit /\ [][KernelNext]_vars

(* ------------------------- steps, as observed -------------------------- *)
FrameStep == frame' # frame
DrawStep == queue # <<>> /\ Head(queue).op = "draw" /\ Len(queue') < Len(queue)
ComputeStep == done' # done

\* the invocation that ran in a compute step
Ran(i) == i \in Invocations /\ i \notin running /\ done' = running \cup {i}

InUnit(x) == ~IsNaN(x) /\ 0 <= x /\ x <= S

(* ------------------------------ claims --------------------------------- *)
\* C1: in every reachable state every particle has 0 <= position.x <= 1 and
\* 0 <= position.y <= 1.
Boundedness ==
    \A i \in Index : InUnit(particles[i].pos[1]) /\ InUnit(particles[i].pos[2])

\* C5: the host pointer mode is Inactive when nothing is down, Attract when
\* only the primary button or a single touch is down, Repel when only the
\* secondary button or a two-finger touch is down, and never another value.
PointerModeTracksActivation ==
    /\ uniformData[2] \in {0, 1 * S, 2 * S}
    /\ (buttonsDown = {} /\ touches = 0) => uniformData[2] = 0
    /\ (buttonsDown = {0} /\ touches = 0) => uniformData[2] = 1 * S
    /\ (buttonsDown = {2} /\ touches = 0) => uniformData[2] = 2 * S
    /\ (buttonsDown = {} /\ touches = 1) => uniformData[2] = 1 * S
    /\ (buttonsDown = {} /\ touches = 2) => uniformData[2] = 2 * S

\* C2: every frame callback records exactly one update dispatch followed by
\* exactly one draw in the one device queue, and the draw of frame K runs when
\* exactly the updates of frames 1..K have completed, none of them in flight.
UpdateBeforeDraw ==
    /\ [](/\ presented.frame = presented.updates
          /\ (queue # <<>> /\ Head(queue).op = "draw")
                => (running = {} /\ updates = Head(queue).frame))
    /\ [][FrameStep =>
            /\ Len(queue') = Len(queue) + 3
            /\ SubSeq(queue', 1, Len(queue)) = queue
            /\ LET c == SubSeq(queue', Len(queue) + 1, Len(queue) + 3)
               IN  /\ <<c[1].op, c[2].op, c[3].op>> = <<"write", "compute", "draw">>
                   /\ \A n \in 1..3 : c[n].frame = frame']_vars

DrawOfSecondFrame ==
    /\ presented.frame >= 2
    /\ presented.updates >= 2
    /\ presented.src = particles

\* C3: on every frame the uploaded deltaTime is min(now - lastTime, 30 ms) in
\* seconds, never above 0.03 s and exactly 0.03 s when the gap is 30 ms or
\* more, and lastTime becomes now.
FrameDeltaClamp ==
    [][FrameStep =>
        LET gap == now' - lastTime
            dt == uniformData'[1]
        IN  /\ gap >= 30 => dt = (30 * S) \div 1000
            /\ (0 <= gap /\ gap < 30) => dt = (gap * S) \div 1000
            /\ dt <= (30 * S) \div 1000
            /\ queue'[Len(queue) + 1].data[1] = dt
            /\ lastTime' = now']_vars

StallClamped ==
    /\ frame = 2
    /\ now = 520
    /\ lastTime = 520
    /\ uniformData[1] = 30
    /\ uploaded[1][1] = 20

\* C4: pointer events change only the host copy uniformData; the device copy
\* changes only when a frame's upload executes, to the host copy as it was at
\* that upload; the update of frame K runs with exactly that upload.
PointerEventsHostOnly ==
    /\ [][(~FrameStep /\ uniformData' # uniformData)
            => (uniformBuffer' = uniformBuffer /\ queue' = queue
                /\ particles' = particles /\ uploaded' = uploaded)]_vars
    /\ [][FrameStep =>
            /\ uploaded' = Append(uploaded, uniformData')
            /\ queue'[Len(queue) + 1].op = "write"
            /\ queue'[Len(queue) + 1].data = uniformData']_vars
    /\ [][uniformBuffer' # uniformBuffer =>
            /\ queue # <<>> /\ Head(queue).op = "write"
            /\ uniformBuffer' = uploaded[Head(queue).frame]]_vars
    /\ []((queue # <<>> /\ Head(queue).op = "compute")
            => uniformBuffer = uploaded[Head(queue).frame])

PointerMovedAfterUpload ==
    /\ queue # <<>>
    /\ Head(queue).op = "compute"
    /\ running # {}
    /\ uniformBuffer = uploaded[Head(queue).frame]
    /\ <<uniformData[2], uniformData[3], uniformData[4]>>
          # <<uniformBuffer[2], uniformBuffer[3], uniformBuffer[4]>>

UpdateIndependence ==
    [][ComputeStep =>
        /\ \E i \in Invocations :
              /\ Ran(i)
              /\ \A j \in Index \ {i} : particles'[j] = particles[j]
              /\ i \in Index =>
                    particles'[i] = cs_main(pre'[i], uniformBuffer, indeterminate')
        /\ \A j \in Index \ done' : particles'[j] = pre'[j]
        /\ done' = Invocations =>
              particles' = [j \in Index |->
                               cs_main(pre'[j], uniformBuffer, indeterminate')]
        /\ uniformBuffer' = uniformBuffer]_vars

DispatchCompleted ==
    /\ done = Invocations
    /\ updates >= 1
    /\ \A j \in Index : particles[j] # pre[j]

\* C8: exactly one frame callback is pending at all times (no listener cancels
\* or duplicates it), and under a display that keeps delivering callbacks
\* every frame up to the modelled horizon eventually runs, with its update
\* and its draw executed.
FrameLoopNeverStops ==
    /\ [](rafPending = 1)
    /\ <>[](/\ frame = MaxFrames
            /\ updates = MaxFrames
            /\ presented.frame = MaxFrames
            /\ queue = <<>>)

NextFrameAfterEvents ==
    /\ frame = 2
    /\ events >= 1
    /\ uploaded[1] # uploaded[2]
    /\ rafPending = 1
    /\ presented.frame = 2

\* C9: after integration an axis's velocity is negated and its coordinate
\* clamped into [0,1] exactly when the integrated coordinate is below 0 or
\* above 1, otherwise both are left as integrated, each axis on its own; a
\* particle at x = 0.999 with vx = 0.5, dt = 0.02 and no pointer force ends
\* at x = 1 with vx negative.
BoundaryReflection ==
    [][ComputeStep =>
        \A i \in Index : Ran(i) =>
            LET p == particles[i]
                q == particles'[i]
                u == uniformBuffer
                Axis(a, va) ==
                    Let(integrate(p.pos[a], va, u[1]), LAMBDA x :
                        /\ Lt(x, 0) => (q.pos[a] = 0 /\ q.vel[a] = Neg(va))
                        /\ Gt(x, S) => (q.pos[a] = S /\ q.vel[a] = Neg(va))
                        /\ ~(Lt(x, 0) \/ Gt(x, S)) =>
                              (q.pos[a] = x /\ q.vel[a] = va))
            IN  Let(forced(p.pos, p.vel, u, indeterminate'), LAMBDA f :
                Let(damped(p.pos, f, u), LAMBDA v :
                    /\ Axis(1, v[1])
                    /\ Axis(2, v[2])
                    /\ (p.pos[1] = 999 /\ p.vel[1] = 500 /\ u[1] = 20
                        /\ f = p.vel)
                          => (q.pos[1] = S /\ q.vel[1] < 0
                              /\ ~IsNaN(q.vel[1]))))]_vars

BouncedOffRightWall ==
    \E i \in Index :
        /\ i \in done
        /\ pre[i] = [pos |-> <<999, 500>>, vel |-> <<500, 0>>]
        /\ uniformBuffer[1] = 20
        /\ uniformBuffer[2] = 0
        /\ particles[i].pos[1] = S
        /\ particles[i].vel[1] < 0
        /\ particles[i].pos[2] = pre[i].pos[2]

\* C10: a pointer force is applied only when the squared distance to the
\* pointer is below 0.04 and the mode is Attract or Repel; otherwise the
\* particle's new position and velocity are the same for every pointer
\* position.
PointerIn(p, m) ==
    LET dx == m[1] - p.pos[1]
        dy == m[2] - p.pos[2]
    IN  100 * (dx * dx + dy * dy) < 4 * S * S

NoForceOn(p, mode, m) == mode \notin {1 * S, 2 * S} \/ ~PointerIn(p, m)

PointerForceGating ==
    [][ComputeStep =>
        \A i \in Index : Ran(i) =>
            LET p == particles[i]
                u == uniformBuffer
            IN  /\ NoForceOn(p, u[2], <<u[3], u[4]>>) =>
                      /\ forced(p.pos, p.vel, u, indeterminate') = p.vel
                      /\ \A m \in KernelPointers :
                            NoForceOn(p, u[2], m) =>
                               particles'[i] =
                                  cs_main(p, <<u[1], u[2], m[1], m[2]>>,
                                          indeterminate')
                /\ (forced(p.pos, p.vel, u, indeterminate') # p.vel) =>
                      (u[2] \in {1 * S, 2 * S} /\ PointerIn(p, <<u[3], u[4]>>))]_vars

FarFromActivePointer ==
    /\ done = Invocations
    /\ uniformBuffer[2] \in {1 * S, 2 * S}
    /\ uniformBuffer[1] > 0
    /\ \E i, j \in Index :
          /\ ~PointerIn(pre[i], <<uniformBuffer[3], uniformBuffer[4]>>)
          /\ particles[i] # pre[i]
          /\ PointerIn(pre[j], <<uniformBuffer[3], uniformBuffer[4]>>)
          /\ forced(pre[j].pos, pre[j].vel, uniformBuffer, indeterminate) # pre[j].vel

====
